---- MODULE Spec2Model ----
(***************************************************************************)
(* Document version history of lilia-desktop (src-tauri/src/versions.rs):  *)
(* per-document directories holding a manifest.json (newest-first list of  *)
(* VersionEntry) and one gzip blob <id>.lml.gz per version, driven by the  *)
(* four commands create_version, list_versions, restore_version and        *)
(* delete_version.                                                         *)
(*                                                                         *)
(* The file system is the state.  Every command runs under the             *)
(* app_data_dir mutex from its first to its last line, so each command is  *)
(* one atomic action.  A command's file-system calls can fail; the failing *)
(* call of a run is the action's parameter f (NoFault: none fails).        *)
(*                                                                         *)
(* SpecThreads runs the same commands step by step on several threads,     *)
(* with the mutex as the only thing that orders them.                      *)
(*                                                                         *)
(* SpecRecent and SpecFormulas run the commands of the recent-files list   *)
(* (recent_files.rs) and of the formula library (formulas.rs); each runs   *)
(* under its manager's mutex and saves the manager's data when it is done. *)
(***************************************************************************)
EXTENDS Integers, Sequences, FiniteSets, TLC

\* ------------------------------------------------------------------ bounds

\* `manifest.versions.len() > 100` / `split_off(100)`
MAX_VERSIONS == 100

\* Versions a document may already hold on disk when the application starts.
Prefill == 99

\* Version ids (uuid v4) generated during a run.
NewIds == 3

\* File-system calls that fail during a run (the specifications with faults).
MaxFaults == 1

\* The readings of the system clock run from 0 to MaxTime (SpecMeta).
MaxTime == 1

\* A run adds at most MaxPaths distinct paths to the recent files: more than
\* MAX_RECENT_FILES, so that the list fills up and is trimmed.
MaxPaths == 11

\* A run adds a path it has added before at most MaxReadds times.
MaxReadds == 2

\* seed_system_formulas is modelled with Seeds formulas.
Seeds == 2

\* The formula library holds at most Seeds + MaxAdds formulas.
MaxAdds == 2

\* The usage count of a formula is raised up to MaxUsage.
MaxUsage == 1

\* ------------------------------------------------------------------ inputs

\* document_path values: three paths, standing for any three of which the
\* last two have different text and the same 8-byte digest prefix as below.
Paths == {"/b.lml", "/a.lml", "/x/a.lml"}

\* Document contents, as sequences of characters.
Contents == {<<"a">>, <<"b">>, <<"a", " ", "b">>}

\* comment: Option<String>, None as the empty sequence.
NoComment == <<>>

Comments == {NoComment, <<"c">>}

\* chrono::Utc::now(): the system clock, which the user or a time
\* synchronisation can set back between two calls.
Times == 0..MaxTime

\* ------------------------------------------------------- pure functions

\* Sha256 of the path bytes cut to 8 bytes, hex encoded.  The digest itself is
\* not computed: it is a fixed function of the path, and a function from
\* arbitrary strings to 64 bits is not injective, so two of the paths share
\* a fingerprint.
document_hash(path) ==
    CASE path = "/a.lml"   -> "d1"
      [] path = "/b.lml"   -> "d2"
      [] path = "/x/a.lml" -> "d1"

\* Mutant: the hash is left out of the directory's name.
versions_dir_Flat(document_path) == "d1"

\* app_data_dir/versions/<document_hash>: the directory is named by the hash.
versions_dir(document_path) == document_hash(document_path)

Dirs == {versions_dir(p) : p \in Paths}

\* Sha256 of the content cut to 8 bytes, hex encoded: as document_hash, a
\* fixed non-injective function.
content_hash(content) ==
    CASE content = <<"a">>           -> "h1"
      [] content = <<"b">>           -> "h2"
      [] content = <<"a", " ", "b">> -> "h1"

RECURSIVE CountFrom(_, _, _)
\* Words of content[i..]: maximal runs of non-whitespace characters.
CountFrom(content, i, inWord) ==
    IF i > Len(content) THEN 0
    ELSE IF content[i] = " " THEN CountFrom(content, i + 1, FALSE)
    ELSE (IF inWord THEN 0 ELSE 1) + CountFrom(content, i + 1, TRUE)

\* content.split_whitespace().count()
count_words(content) == CountFrom(content, 1, FALSE)

\* Mutant: `write` for `write_all`, only a first chunk reaches the file.
GzEncode_FirstChunk(content) ==
    [complete |-> TRUE, data |-> SubSeq(content, 1, 1)]

\* GzEncoder: write_all + finish produce a complete gzip stream of the bytes.
GzEncode(content) == [complete |-> TRUE, data |-> content]

\* A blob whose write_all or finish failed: the file exists, the stream is cut.
GzTruncated == [complete |-> FALSE, data |-> <<>>]

\* fs::metadata(gz_path).len(): grows with the content (10 bytes of gzip
\* header and 8 of trailer around the deflate stream).
GzSize(content) == Len(content) + 18

\* ------------------------------------------------------------------- state

VARIABLES
    dirs,      \* the version directories that exist under app_data_dir/versions
    manifest,  \* per directory, the file manifest.json
    blobs,     \* per directory, the files <id>.lml.gz: id -> stored stream
    nextId,    \* the next value uuid::Uuid::new_v4() returns (never repeats)
    faults,    \* the file-system calls that have failed so far, in order
    lastOp,    \* the last command that returned: its arguments and its result
    app_data_dir, \* AppState.app_data_dir, the Mutex: its holder, its poison flag
    threads,   \* per thread, the command it is running and how far it got
    recent_files, \* AppState.recent_files: the manager's data.files and its file
    formulas,  \* AppState.formulas: the manager's data.formulas and its file
    calls,     \* how many distinct paths were added, how many adds repeated one
    lastCall   \* the last manager command that returned: arguments and result

vars == <<dirs, manifest, blobs, nextId, faults, lastOp, app_data_dir, threads,
          recent_files, formulas, calls, lastCall>>

\* The state of the version history, which the manager commands never touch.
versionState ==
    <<dirs, manifest, blobs, nextId, faults, lastOp, app_data_dir, threads>>

\* The state of the recent-files and formula managers, which the version
\* commands never touch.
managers == <<recent_files, formulas, calls, lastCall>>

\* Mutex::new(app_dir): nobody holds it (holder 0), it is not poisoned.
MutexNew == [holder |-> 0, poisoned |-> FALSE]

\* manifest.json: missing, holding a serialized VersionManifest, or holding
\* bytes serde_json cannot parse (a write that failed half-way).
ManifestAbsent == [state |-> "absent", versions |-> <<>>]
ManifestOk(versions) == [state |-> "ok", versions |-> versions]
ManifestCorrupt == [state |-> "corrupt", versions |-> <<>>]

NoBlobs == [i \in {} |-> GzTruncated]

\* Mutant: the timestamp is left at its default.
VersionEntry_Unstamped(id, document_path, timestamp, comment, content, size) ==
    [id              |-> id,
     document_path   |-> document_path,
     timestamp       |-> 0,
     comment         |-> comment,
     word_count      |-> count_words(content),
     file_size_bytes |-> size,
     content_hash    |-> content_hash(content)]

\* struct VersionEntry
VersionEntry(id, document_path, timestamp, comment, content, size) ==
    [id              |-> id,
     document_path   |-> document_path,
     timestamp       |-> timestamp,
     comment         |-> comment,
     word_count      |-> count_words(content),
     file_size_bytes |-> size,
     content_hash    |-> content_hash(content)]

\* ----------------------------------------------------------------- helpers

\* read_manifest: the stored list, or the empty list when the file is
\* missing, unreadable or does not parse.
ManifestVersions(file) == IF file.state = "ok" THEN file.versions ELSE <<>>

read_manifest(dir) == ManifestVersions(manifest[dir])

\* read_manifest in a run where fs::read_to_string fails (f = "manifest_read"):
\* `if let Ok(content)` does not match and the empty list is returned.
ManifestRead(dir, f) == IF f = "manifest_read" THEN <<>> ELSE read_manifest(dir)

\* gz_path.exists() for dir.join("<id>.lml.gz")
BlobExists(dir, id) == id \in DOMAIN blobs[dir]

\* Mutant: `.last()` for `.first()`.
IsDedupHit_Last(versions, hash) ==
    /\ versions # <<>>
    /\ versions[Len(versions)].content_hash = hash

\* Mutant: the whole history is searched for the fingerprint.
IsDedupHit_AnyEntry(versions, hash) ==
    \E i \in 1..Len(versions) : versions[i].content_hash = hash

\* Mutant: the comparison is inverted (`!=` for `==`).
IsDedupHit_Inverted(versions, hash) ==
    /\ versions # <<>>
    /\ versions[1].content_hash # hash

\* `if let Some(last) = manifest.versions.first() { if last.content_hash == hash`
IsDedupHit(versions, hash) ==
    /\ versions # <<>>
    /\ versions[1].content_hash = hash

\* Mutant: `push` for `insert(0, ..)`.
InsertFront_Push(versions, entry) == Append(versions, entry)

\* manifest.versions.insert(0, entry)
InsertFront(versions, entry) == <<entry>> \o versions

\* Mutant: the cap is off by one (`> 101`, `split_off(101)`).
Kept_OffByOne(versions) ==
    IF Len(versions) > MAX_VERSIONS + 1
    THEN SubSeq(versions, 1, MAX_VERSIONS + 1)
    ELSE versions

\* What stays in manifest.versions after `split_off(100)` when len > 100.
Kept(versions) ==
    IF Len(versions) > MAX_VERSIONS THEN SubSeq(versions, 1, MAX_VERSIONS)
    ELSE versions

\* `removed`: what split_off(100) returns (nothing when len <= 100).
Removed(versions) ==
    IF Len(versions) > MAX_VERSIONS
    THEN SubSeq(versions, MAX_VERSIONS + 1, Len(versions))
    ELSE <<>>

\* Mutant: the blob files are named by content fingerprint, so removing the
\* file of one version removes the file of every version with that
\* fingerprint.
RemoveFiles_ByHash(files, ids) ==
    LET gone == {i \in DOMAIN files :
                   \E k \in ids \cap DOMAIN files :
                      content_hash(files[i].data) = content_hash(files[k].data)}
    IN  [i \in DOMAIN files \ gone |-> files[i]]

\* Mutant: the files are left in place.
RemoveFiles_Noop(files, ids) == files

\* fs::remove_file on each of the files <id>.lml.gz, id in ids.
RemoveFiles(files, ids) == [i \in DOMAIN files \ ids |-> files[i]]

\* Mutant: the blob is written under a temporary name, to be renamed once
\* the manifest is written.
PutFile_Temp(files, id, stream) == files

\* File::create + write: the file <id>.lml.gz now holds `stream`.
PutFile(files, id, stream) ==
    [i \in DOMAIN files \cup {id} |-> IF i = id THEN stream ELSE files[i]]

\* Mutant: the entry is removed by position, the head when no id matches
\* (`remove(position.unwrap_or(0))`).
Retain_OrHead(versions, version_id) ==
    LET keep(v) == v.id # version_id
    IN  IF \E i \in 1..Len(versions) : versions[i].id = version_id
        THEN SelectSeq(versions, keep)
        ELSE SubSeq(versions, 2, Len(versions))

\* Mutant: the predicate of retain is inverted.
Retain_Inverted(versions, version_id) ==
    LET keep(v) == v.id = version_id IN SelectSeq(versions, keep)

\* manifest.versions.retain(|v| v.id != version_id)
Retain(versions, version_id) ==
    LET keep(v) == v.id # version_id IN SelectSeq(versions, keep)

Ids(versions) == {versions[i].id : i \in 1..Len(versions)}

\* Mutant: restore looks the id up in the manifest first.
RestoreResult_ViaManifest(dir, version_id) ==
    IF version_id \notin Ids(read_manifest(dir)) \/ ~BlobExists(dir, version_id)
    THEN [ret |-> "not_found", out |-> <<>>]
    ELSE IF ~blobs[dir][version_id].complete
    THEN [ret |-> "err_decompress", out |-> <<>>]
    ELSE [ret |-> "ok", out |-> blobs[dir][version_id].data]

\* The body of restore_version after the lock: blob lookup by id alone.
RestoreResult(dir, version_id) ==
    IF ~BlobExists(dir, version_id)
    THEN [ret |-> "not_found", out |-> <<>>]
    ELSE IF ~blobs[dir][version_id].complete
    THEN [ret |-> "err_decompress", out |-> <<>>]
    ELSE [ret |-> "ok", out |-> blobs[dir][version_id].data]

\* ------------------------------------------------- recent files (pure part)

\* Option<T>: None and Some(v).  A file that does not exist is None, one
\* that does is Some of its content.
None == <<>>
Some(v) == <<v>>

\* `const MAX_RECENT_FILES: usize = 10`.
MAX_RECENT_FILES == 10

\* The paths a user opens.  Two paths are the same string exactly when they
\* are the same number; path n is the n-th distinct path of a run.
RecentPaths == 1..MaxPaths

\* Mutant: add_file without its `retain`.
Retained_Keep(files, path) == files

\* `self.data.files.retain(|f| f != path)`.
Retained(files, path) == SelectSeq(files, LAMBDA f : f # path)

\* Mutant: the path is pushed to the back.
Inserted_Back(files, path) == Append(files, path)

\* `self.data.files.insert(0, path.to_string())`.
Inserted(files, path) == <<path>> \o files

\* Mutant: the list is never trimmed.
Truncated_Never(files) == files

\* `if len > MAX_RECENT_FILES { truncate(MAX_RECENT_FILES) }`.
Truncated(files) ==
    IF Len(files) > MAX_RECENT_FILES THEN SubSeq(files, 1, MAX_RECENT_FILES)
    ELSE files

\* RecentFilesManager::add_file: the list it leaves in self.data.files.
add_file(files, path) == Truncated(Inserted(Retained(files, path), path))

\* RecentFilesManager::get_files: the paths of the list, in its order, that
\* still exist on disk (`existing`).
get_files(files, existing) == SelectSeq(files, LAMBDA f : f \in existing)

\* What exists on disk when get_files looks: every path, or the paths of
\* odd number only.
Existing == {RecentPaths, {p \in RecentPaths : p % 2 = 1}}

\* RecentFilesManager::clear.
clear(files) == <<>>

\* RecentFilesManager::new on a data directory without recent_files.json:
\* load_from_path fails and `unwrap_or_default` gives the empty list.  The
\* file itself is written by the first save.
RecentFilesNew == [data |-> <<>>, file |-> None]

\* ------------------------------------------------ formula library (pure part)

\* Strings are sequences of characters.
Letters == {"a", "b", "n", "o", "q", "f", "x", "y"}
Capitals == {"A", "B", "N", "O", "Q", "F"}
Digits == {"1", "2"}

\* char::to_lowercase on the characters used here.
ToLower(c) ==
    CASE c = "A" -> "a" [] c = "B" -> "b" [] c = "N" -> "n"
      [] c = "O" -> "o" [] c = "Q" -> "q" [] c = "F" -> "f"
      [] OTHER -> c

\* char::is_alphanumeric.
IsAlphanumeric(c) == c \in Letters \cup Capitals \cup Digits

\* `.split('-').filter(|s| !s.is_empty()).join("-")` on the characters from
\* position i on, `out` being what the earlier characters gave: a '-' is kept
\* only between two non-empty pieces.
RECURSIVE JoinPieces(_, _, _)
JoinPieces(chars, i, out) ==
    IF i > Len(chars) THEN out
    ELSE IF chars[i] # "-" THEN JoinPieces(chars, i + 1, Append(out, chars[i]))
    ELSE IF out = <<>> \/ out[Len(out)] = "-" THEN JoinPieces(chars, i + 1, out)
    ELSE IF \E j \in (i + 1)..Len(chars) : chars[j] # "-"
         THEN JoinPieces(chars, i + 1, Append(out, "-"))
    ELSE out

\* slugify: lower case, every non-alphanumeric character a '-', runs of '-'
\* collapsed and none at either end.
slugify(name) ==
    JoinPieces([i \in 1..Len(name) |->
                   IF IsAlphanumeric(ToLower(name[i])) THEN ToLower(name[i])
                   ELSE "-"], 1, <<>>)

\* `format!("\n@equation(label: eq:{}, mode: display)\n{}\n", slug, latex)`.
Equation(slug, latex) ==
    <<"\n@equation(label: eq:">> \o slug \o <<", mode: display)\n">>
        \o latex \o <<"\n">>

\* The names seed_system_formulas gives its formulas: "Quadratic Formula",
\* "Big-O Master Theorem", ... shortened to their initials.
SeedName(i) == IF i % 2 = 1 THEN <<"Q", " ", "F">> ELSE <<"B", "-", "O">>

\* One formula of seed_system_formulas; its id is the i-th uuid drawn.
SeedFormula(i) ==
    [id |-> i, name |-> SeedName(i), description |-> Some("seeded"),
     latex_content |-> <<"x">>,
     lml_content |-> Some(Equation(slugify(SeedName(i)), <<"x">>)),
     category |-> "math", subcategory |-> Some("algebra"),
     tags |-> <<"roots">>, is_favorite |-> FALSE, is_system |-> TRUE,
     usage_count |-> 0, created_at |-> 0, updated_at |-> 0]

\* seed_system_formulas.
seed_system_formulas == [i \in 1..Seeds |-> SeedFormula(i)]

\* FormulaManager::new on a data directory without formulas.json: the
\* library is seeded and the seeded data is saved.
FormulasNew ==
    [data |-> seed_system_formulas, file |-> Some(seed_system_formulas)]

\* The ids a caller passes: the id of the first seeded formula and an id of
\* its own.
FormulaIds == {1, Seeds + 1}

\* The formulas a caller passes to create_formula.  Every field comes from
\* the caller, id and is_system included.
NewFormulas ==
    {[id |-> id, name |-> <<"N", "1">>, description |-> None,
      latex_content |-> <<"y">>, lml_content |-> None,
      category |-> "user", subcategory |-> None, tags |-> <<>>,
      is_favorite |-> FALSE, is_system |-> sys, usage_count |-> 0,
      created_at |-> 0, updated_at |-> 0] :
        id \in FormulaIds, sys \in BOOLEAN}

\* FormulaUpdate values: nothing set, the latex only, and every field.
FormulaUpdates ==
    {[name |-> None, description |-> None, latex_content |-> None,
      category |-> None, subcategory |-> None, tags |-> None],
     [name |-> None, description |-> None, latex_content |-> Some(<<"x", "2">>),
      category |-> None, subcategory |-> None, tags |-> None],
     [name |-> Some(<<"-", "O", " ">>), description |-> Some("d"),
      latex_content |-> Some(<<"y", "2">>), category |-> Some("physics"),
      subcategory |-> Some("s"), tags |-> Some(<<"t">>)]}

\* Mutant: `find(|f| f.id == id)`, without the is_system test.
Editable_AnyOwner(formula, id) == formula.id = id

\* The closure of update's `find`: `f.id == id && !f.is_system`.
Editable(formula, id) == formula.id = id /\ ~formula.is_system

\* `iter_mut().find(..)`: the index of the first formula update may change,
\* 0 when there is none.
FindEditable(data, id) ==
    IF \E i \in 1..Len(data) : Editable(data[i], id)
    THEN CHOOSE i \in 1..Len(data) :
            /\ Editable(data[i], id)
            /\ \A j \in 1..(i - 1) : ~Editable(data[j], id)
    ELSE 0

\* The body of update's `if let Some(formula)`: the fields are assigned in
\* the order of the code, so the slug is taken from the name already updated.
Updated(formula, updates, now) ==
    LET f1 == IF updates.name # None
              THEN [formula EXCEPT !.name = updates.name[1]] ELSE formula
        f2 == IF updates.description # None
              THEN [f1 EXCEPT !.description = Some(updates.description[1])]
              ELSE f1
        f3 == IF updates.latex_content # None
              THEN [f2 EXCEPT
                      !.lml_content = Some(Equation(slugify(f2.name),
                                                   updates.latex_content[1])),
                      !.latex_content = updates.latex_content[1]]
              ELSE f2
        f4 == IF updates.category # None
              THEN [f3 EXCEPT !.category = updates.category[1]] ELSE f3
        f5 == IF updates.subcategory # None
              THEN [f4 EXCEPT !.subcategory = Some(updates.subcategory[1])]
              ELSE f4
        f6 == IF updates.tags # None
              THEN [f5 EXCEPT !.tags = updates.tags[1]] ELSE f5
    IN  [f6 EXCEPT !.updated_at = now]

\* FormulaManager::add: the list it leaves.
add(data, formula) == Append(data, formula)

\* FormulaManager::update: the list it leaves and what it returns.
update(data, id, updates, now) ==
    LET i == FindEditable(data, id)
    IN  IF i = 0 THEN [data |-> data, ret |-> None]
        ELSE [data |-> [data EXCEPT ![i] = Updated(data[i], updates, now)],
              ret |-> Some(Updated(data[i], updates, now))]

\* Mutant: `retain(|f| f.id != id)`, without the is_system test.
Survives_OthersOnly(formula, id) == formula.id # id

\* The closure of remove's `retain`: `f.id != id || f.is_system`.
Survives(formula, id) == formula.id # id \/ formula.is_system

\* FormulaManager::remove: the list it leaves and what it returns.
remove(data, id) ==
    LET kept == SelectSeq(data, LAMBDA f : Survives(f, id))
    IN  [data |-> kept, ret |-> Len(kept) < Len(data)]

\* `iter_mut().find(|f| f.id == id)` of toggle_favorite and increment_usage.
FindById(data, id) ==
    IF \E i \in 1..Len(data) : data[i].id = id
    THEN CHOOSE i \in 1..Len(data) :
            data[i].id = id /\ \A j \in 1..(i - 1) : data[j].id # id
    ELSE 0

\* FormulaManager::toggle_favorite.
toggle_favorite(data, id, now) ==
    LET i == FindById(data, id)
    IN  IF i = 0 THEN [data |-> data, ret |-> None]
        ELSE LET f == [data[i] EXCEPT !.is_favorite = ~@,
                                      !.updated_at = now]
             IN  [data |-> [data EXCEPT ![i] = f], ret |-> Some(f)]

\* FormulaManager::increment_usage.
increment_usage(data, id, now) ==
    LET i == FindById(data, id)
    IN  IF i = 0 THEN [data |-> data, ret |-> None]
        ELSE LET f == [data[i] EXCEPT !.usage_count = @ + 1,
                                      !.updated_at = now]
             IN  [data |-> [data EXCEPT ![i] = f], ret |-> Some(f)]

\* The state of both managers after `setup` in main.
ManagersNew ==
    /\ recent_files = RecentFilesNew
    /\ formulas = FormulasNew
    /\ calls = [fresh |-> 0, readds |-> 0]
    /\ lastCall = [op |-> "init", path |-> 0, added |-> 0, id |-> 0,
                   ret |-> None]

\* -------------------------------------------------------------------- Init

\* A history left on disk by earlier runs: Prefill versions of "/a.lml",
\* saved alternately with two contents, newest (id Prefill) first.
PrefillContent(id) == IF id % 2 = 1 THEN <<"b">> ELSE <<"a">>

PrefillEntry(id) ==
    VersionEntry(id, "/a.lml", 0, NoComment, PrefillContent(id),
                 GzSize(PrefillContent(id)))

PrefillManifest == [i \in 1..Prefill |-> PrefillEntry(Prefill + 1 - i)]

PrefillBlobs == [id \in 1..Prefill |-> GzEncode(PrefillContent(id))]

\* The threads commands run on.
Threads == {1, 2}

\* A thread that runs no command.
Idle == [pc |-> "idle", op |-> "none", path |-> "", content |-> <<>>,
         id |-> 0, m |-> <<>>, entry |-> <<>>, overlap |-> FALSE]

Op(op, path, content, comment, id, ret, entry, out, listing) ==
    [op |-> op, path |-> path, content |-> content, comment |-> comment,
     id |-> id, ret |-> ret, entry |-> entry, out |-> out,
     listing |-> listing, now |-> 0]

\* Nothing is on disk yet.
Init ==
    /\ dirs = {}
    /\ manifest = [d \in Dirs |-> ManifestAbsent]
    /\ blobs = [d \in Dirs |-> NoBlobs]
    /\ nextId = Prefill + 1
    /\ faults = <<>>
    /\ lastOp = Op("init", "", <<>>, NoComment, 0, "ok", <<>>, <<>>, <<>>)
    /\ app_data_dir = MutexNew
    /\ threads = [t \in Threads |-> Idle]
    /\ ManagersNew

\* "/a.lml" has its earlier history on disk.
InitAged ==
    /\ dirs = {versions_dir("/a.lml")}
    /\ manifest = [d \in Dirs |->
          IF d = versions_dir("/a.lml") THEN ManifestOk(PrefillManifest)
          ELSE ManifestAbsent]
    /\ blobs = [d \in Dirs |->
          IF d = versions_dir("/a.lml") THEN PrefillBlobs ELSE NoBlobs]
    /\ nextId = Prefill + 1
    /\ faults = <<>>
    /\ lastOp = Op("init", "", <<>>, NoComment, 0, "ok", <<>>, <<>>, <<>>)
    /\ app_data_dir = MutexNew
    /\ threads = [t \in Threads |-> Idle]
    /\ ManagersNew

\* ----------------------------------------------------------------- actions

NoFault == "none"

\* The file-system calls of versions.rs that return an error the code handles.
Faults == {"create_dir", "create_file", "compress", "metadata", "evict_remove",
           "manifest_open", "manifest_write", "remove_file"}

\* fs::read_to_string(manifest_path) failing on a manifest that is there.
ReadFaults == {"manifest_read"}

\* Calls that panic instead of returning an error: uuid::Uuid::new_v4() when
\* the operating system's random source fails.  The panic unwinds through
\* the MutexGuard and poisons the mutex.
Panics == {"uuid_panic"}

\* version_id arguments: the oldest id of the earlier history and every id a
\* run can generate.
VersionIds == {1} \cup ((Prefill + 1)..(Prefill + NewIds))

\* Mutant: `fs::remove_file(&path)?` for `.ok()` in the eviction loop.
CreateRet_EvictStrict(dir, content, f) ==
    IF app_data_dir.poisoned THEN "err_lock"
    ELSE IF f = "create_dir" THEN "err_create_dir"
    ELSE IF IsDedupHit(ManifestRead(dir, f), content_hash(content)) THEN "dedup"
    ELSE IF f = "uuid_panic" THEN "panic"
    ELSE IF f = "create_file" THEN "err_create_file"
    ELSE IF f = "compress" THEN "err_compress"
    ELSE IF f = "evict_remove" THEN "err_evict"
    ELSE IF f \in {"manifest_open", "manifest_write"} THEN "err_manifest"
    ELSE "created"

\* Where create_version returns, given the failing call f.
CreateRet(dir, content, f) ==
    IF app_data_dir.poisoned THEN "err_lock"
    ELSE IF f = "create_dir" THEN "err_create_dir"
    ELSE IF IsDedupHit(ManifestRead(dir, f), content_hash(content)) THEN "dedup"
    ELSE IF f = "uuid_panic" THEN "panic"
    ELSE IF f = "create_file" THEN "err_create_file"
    ELSE IF f = "compress" THEN "err_compress"
    ELSE IF f \in {"manifest_open", "manifest_write"} THEN "err_manifest"
    ELSE "created"

\* The failing call f is one this run of create_version reaches.
\* create_dir_all succeeds on a directory that exists.
CreateFaultReached(dir, content, entry, f) ==
    LET hit == IsDedupHit(ManifestRead(dir, f), content_hash(content))
        inserted == InsertFront(ManifestRead(dir, f), entry)
    IN  CASE f = NoFault -> TRUE
          [] app_data_dir.poisoned -> FALSE
          [] f = "create_dir" -> dir \notin dirs
          [] f = "manifest_read" -> manifest[dir].state = "ok"
          [] f \in {"uuid_panic", "create_file", "compress", "metadata",
                    "manifest_open", "manifest_write"} -> ~hit
          [] f = "evict_remove" -> ~hit /\ Removed(inserted) # <<>>
          [] OTHER -> FALSE

\* Mutant: the head entry is returned with the comment of this call.
DedupEntry_Recomment(versions, comment) ==
    [versions[1] EXCEPT !.comment = comment]

\* `return Ok(last.clone())`
DedupEntry(versions, comment) == versions[1]

\* The returns of create_version that come before the id is generated.
CreateEarly == {"err_lock", "err_create_dir", "dedup", "panic"}

create_version(document_path, content, comment, now, f) ==
    LET dir == versions_dir(document_path)
        versions == ManifestRead(dir, f)
        id == nextId
        size == IF f = "metadata" THEN 0 ELSE GzSize(content)
        entry == VersionEntry(id, document_path, now, comment, content, size)
        inserted == InsertFront(versions, entry)
        written == PutFile(blobs[dir], id, GzEncode(content))
        \* `fs::remove_file(&path).ok()` for each removed entry
        evicted == IF f = "evict_remove" THEN written
                   ELSE RemoveFiles(written, Ids(Removed(inserted)))
        ret == CreateRet(dir, content, f)
    IN  /\ f # NoFault => Len(faults) < MaxFaults
        /\ CreateFaultReached(dir, content, entry, f)
        /\ ret \notin CreateEarly => nextId <= Prefill + NewIds
        /\ faults' = IF f = NoFault THEN faults ELSE Append(faults, f)
        /\ dirs' = IF ret \in {"err_lock", "err_create_dir"} THEN dirs
                   ELSE dirs \cup {dir}
        /\ nextId' = IF ret \in CreateEarly THEN nextId ELSE nextId + 1
        /\ blobs' = [blobs EXCEPT ![dir] =
              CASE ret \in CreateEarly \cup {"err_create_file"} -> @
                [] ret = "err_compress" -> PutFile(@, id, GzTruncated)
                [] OTHER -> evicted]
        /\ manifest' = [manifest EXCEPT ![dir] =
              CASE ret = "created" -> ManifestOk(Kept(inserted))
                [] ret = "err_manifest" /\ f = "manifest_write" -> ManifestCorrupt
                [] OTHER -> @]
        /\ app_data_dir' = [app_data_dir EXCEPT !.poisoned = @ \/ ret = "panic"]
        /\ lastOp' = [Op("create", document_path, content, comment, 0, ret,
                         CASE ret = "created" -> <<entry>>
                           [] ret = "dedup" -> <<DedupEntry(versions, comment)>>
                           [] OTHER -> <<>>,
                         <<>>, <<>>) EXCEPT !.now = now]
        /\ UNCHANGED managers
        /\ UNCHANGED threads

\* Mutant: the poisoned guard is used (`e.into_inner()`), not given up.
ListResult_IgnorePoison(dir, f) == ManifestRead(dir, f)

\* `Err(_) => return vec![]` on a poisoned mutex, else what read_manifest
\* returns.
ListResult(dir, f) == IF app_data_dir.poisoned THEN <<>> ELSE ManifestRead(dir, f)

list_versions(document_path, f) ==
    LET dir == versions_dir(document_path)
    IN  /\ f # NoFault => Len(faults) < MaxFaults
        /\ CASE f = NoFault -> TRUE
             [] app_data_dir.poisoned -> FALSE
             [] f = "manifest_read" -> manifest[dir].state = "ok"
             [] OTHER -> FALSE
        /\ faults' = IF f = NoFault THEN faults ELSE Append(faults, f)
        /\ lastOp' = Op("list", document_path, <<>>, NoComment, 0, "listed",
                        <<>>, <<>>, ListResult(dir, f))
        /\ UNCHANGED managers
        /\ UNCHANGED <<dirs, manifest, blobs, nextId, app_data_dir, threads>>

restore_version(version_id, document_path) ==
    LET r == IF app_data_dir.poisoned THEN [ret |-> "err_lock", out |-> <<>>]
             ELSE RestoreResult(versions_dir(document_path), version_id)
    IN  /\ lastOp' = Op("restore", document_path, <<>>, NoComment, version_id,
                        r.ret, <<>>, r.out, <<>>)
        /\ UNCHANGED managers
        /\ UNCHANGED <<dirs, manifest, blobs, nextId, faults, app_data_dir,
                       threads>>

\* Mutant: remove_file is called without the exists() test, and fails on a
\* missing file.
DeleteRet_Strict(dir, version_id, f) ==
    IF ~BlobExists(dir, version_id) \/ f = "remove_file" THEN "err_delete_file"
    ELSE IF dir \notin dirs THEN "err_manifest"
    ELSE IF f \in {"manifest_open", "manifest_write"} THEN "err_manifest"
    ELSE "ok"

\* Where delete_version returns, given the failing call f.  fs::write cannot
\* create manifest.json in a directory that does not exist.
DeleteRet(dir, version_id, f) ==
    IF app_data_dir.poisoned THEN "err_lock"
    ELSE IF BlobExists(dir, version_id) /\ f = "remove_file"
    THEN "err_delete_file"
    ELSE IF dir \notin dirs THEN "err_manifest"
    ELSE IF f \in {"manifest_open", "manifest_write"} THEN "err_manifest"
    ELSE "ok"

delete_version(version_id, document_path, f) ==
    LET dir == versions_dir(document_path)
        ret == DeleteRet(dir, version_id, f)
    IN  /\ f # NoFault => Len(faults) < MaxFaults
        /\ CASE f = NoFault -> TRUE
             [] app_data_dir.poisoned -> FALSE
             [] f = "remove_file" -> BlobExists(dir, version_id)
             [] f = "manifest_read" -> manifest[dir].state = "ok"
             [] f \in {"manifest_open", "manifest_write"} -> dir \in dirs
             [] OTHER -> FALSE
        /\ faults' = IF f = NoFault THEN faults ELSE Append(faults, f)
        /\ blobs' = [blobs EXCEPT ![dir] =
              IF ret \in {"err_lock", "err_delete_file"} THEN @
              ELSE RemoveFiles(@, {version_id})]
        /\ manifest' = [manifest EXCEPT ![dir] =
              CASE ret = "ok" ->
                     ManifestOk(Retain(ManifestRead(dir, f), version_id))
                [] ret = "err_manifest" /\ f = "manifest_write" -> ManifestCorrupt
                [] OTHER -> @]
        /\ lastOp' = Op("delete", document_path, <<>>, NoComment, version_id,
                        ret, <<>>, <<>>, <<>>)
        /\ UNCHANGED managers
        /\ UNCHANGED <<dirs, nextId, app_data_dir, threads>>

\* ----------------------------------------------------------------- threads
\* The same commands, one step per file-system access, on the threads of
\* Threads.  No call fails here.

\* Mutant: lock() hands out the guard whoever holds the mutex.
Acquirable_Always(mutex) == TRUE

\* state.app_data_dir.lock() returns once no thread holds the mutex.
Acquirable(mutex) == mutex.holder = 0

\* The thread is between its lock() and the drop of the guard at its return.
Holding(t) == threads[t].pc \notin {"idle", "lock"}

\* A command is invoked on an idle thread, which goes to its lock() call.
Invoke(t, op, document_path, content, version_id) ==
    /\ threads[t].pc = "idle"
    /\ threads' = [threads EXCEPT ![t] =
          [pc |-> "lock", op |-> op, path |-> document_path,
           content |-> content, id |-> version_id, m |-> <<>>,
           entry |-> <<>>, overlap |-> \E u \in Threads : Holding(u)]]
    /\ UNCHANGED managers
    /\ UNCHANGED <<dirs, manifest, blobs, nextId, faults, lastOp, app_data_dir>>

\* state.app_data_dir.lock()
Lock(t) ==
    /\ threads[t].pc = "lock"
    /\ Acquirable(app_data_dir)
    /\ app_data_dir' = [app_data_dir EXCEPT !.holder = t]
    /\ threads' = [threads EXCEPT ![t].pc =
          CASE threads[t].op = "create" -> "c_read"
            [] threads[t].op = "list" -> "l_read"
            [] threads[t].op = "restore" -> "r_open"
            [] threads[t].op = "delete" -> "d_remove"]
    /\ UNCHANGED managers
    /\ UNCHANGED <<dirs, manifest, blobs, nextId, faults, lastOp>>

\* The command returns: the guard goes out of scope and the mutex is free.
Return(t, op) ==
    /\ lastOp' = op
    /\ app_data_dir' = [app_data_dir EXCEPT !.holder = 0]
    /\ threads' = [threads EXCEPT ![t].pc = "idle"]

\* create_version, create_dir_all to the dedup test.
CreateRead(t) ==
    LET a == threads[t]
        dir == versions_dir(a.path)
        versions == read_manifest(dir)
        hit == IsDedupHit(versions, content_hash(a.content))
    IN  /\ a.pc = "c_read"
        /\ ~hit => nextId <= Prefill + NewIds
        /\ dirs' = dirs \cup {dir}
        /\ IF hit
           THEN Return(t, Op("create", a.path, a.content, NoComment, 0,
                             "dedup", <<versions[1]>>, <<>>, <<>>))
           ELSE /\ threads' = [threads EXCEPT ![t].pc = "c_blob",
                                              ![t].m = versions]
                /\ UNCHANGED <<lastOp, app_data_dir>>
        /\ UNCHANGED managers
        /\ UNCHANGED <<manifest, blobs, nextId, faults>>

\* create_version, the new id to the eviction: the blob is written, the
\* entry inserted into the manifest in memory, the evicted blobs removed.
CreateBlob(t) ==
    LET a == threads[t]
        dir == versions_dir(a.path)
        entry == VersionEntry(nextId, a.path, 0, NoComment, a.content,
                              GzSize(a.content))
        inserted == InsertFront(a.m, entry)
    IN  /\ a.pc = "c_blob"
        /\ blobs' = [blobs EXCEPT ![dir] =
              RemoveFiles(PutFile(@, nextId, GzEncode(a.content)),
                          Ids(Removed(inserted)))]
        /\ nextId' = nextId + 1
        /\ threads' = [threads EXCEPT ![t].pc = "c_write",
                                      ![t].m = Kept(inserted),
                                      ![t].entry = <<entry>>]
        /\ UNCHANGED managers
        /\ UNCHANGED <<dirs, manifest, faults, lastOp, app_data_dir>>

\* create_version, write_manifest and `Ok(entry)`.
CreateWrite(t) ==
    LET a == threads[t]
        dir == versions_dir(a.path)
    IN  /\ a.pc = "c_write"
        /\ manifest' = [manifest EXCEPT ![dir] = ManifestOk(a.m)]
        /\ Return(t, Op("create", a.path, a.content, NoComment, 0, "created",
                        a.entry, <<>>, <<>>))
        /\ UNCHANGED managers
        /\ UNCHANGED <<dirs, blobs, nextId, faults>>

\* list_versions after its lock().
ListRead(t) ==
    LET a == threads[t]
    IN  /\ a.pc = "l_read"
        /\ Return(t, Op("list", a.path, <<>>, NoComment, 0, "listed", <<>>,
                        <<>>, read_manifest(versions_dir(a.path))))
        /\ UNCHANGED managers
        /\ UNCHANGED <<dirs, manifest, blobs, nextId, faults>>

\* restore_version after its lock().
RestoreOpen(t) ==
    LET a == threads[t]
        r == RestoreResult(versions_dir(a.path), a.id)
    IN  /\ a.pc = "r_open"
        /\ Return(t, Op("restore", a.path, <<>>, NoComment, a.id, r.ret, <<>>,
                        r.out, <<>>))
        /\ UNCHANGED managers
        /\ UNCHANGED <<dirs, manifest, blobs, nextId, faults>>

\* delete_version, `if gz_path.exists() { fs::remove_file }`.
DeleteRemove(t) ==
    LET a == threads[t]
        dir == versions_dir(a.path)
    IN  /\ a.pc = "d_remove"
        /\ blobs' = [blobs EXCEPT ![dir] = RemoveFiles(@, {a.id})]
        /\ threads' = [threads EXCEPT ![t].pc = "d_read"]
        /\ UNCHANGED managers
        /\ UNCHANGED <<dirs, manifest, nextId, faults, lastOp, app_data_dir>>

\* delete_version, read_manifest and retain.
DeleteRead(t) ==
    LET a == threads[t]
        dir == versions_dir(a.path)
    IN  /\ a.pc = "d_read"
        /\ threads' = [threads EXCEPT ![t].pc = "d_write",
                                      ![t].m = Retain(read_manifest(dir), a.id)]
        /\ UNCHANGED managers
        /\ UNCHANGED <<dirs, manifest, blobs, nextId, faults, lastOp,
                       app_data_dir>>

\* delete_version, write_manifest and its return.
DeleteWrite(t) ==
    LET a == threads[t]
        dir == versions_dir(a.path)
    IN  /\ a.pc = "d_write"
        /\ manifest' = [manifest EXCEPT ![dir] =
              IF dir \in dirs THEN ManifestOk(a.m) ELSE @]
        /\ Return(t, Op("delete", a.path, <<>>, NoComment, a.id,
                        IF dir \in dirs THEN "ok" ELSE "err_manifest",
                        <<>>, <<>>, <<>>))
        /\ UNCHANGED managers
        /\ UNCHANGED <<dirs, blobs, nextId, faults>>

\* ---------------------------------------------------------- manager commands

Call(op, path, added, id, ret) ==
    [op |-> op, path |-> path, added |-> added, id |-> id, ret |-> ret]

\* add_recent_file: add_file, then save.  A run names its paths in the order
\* it first adds them, and repeats a path at most MaxReadds times.
add_recent_file(path) ==
    /\ path <= calls.fresh + 1
    /\ path <= calls.fresh => calls.readds < MaxReadds
    /\ recent_files' = [data |-> add_file(recent_files.data, path),
                        file |-> Some(add_file(recent_files.data, path))]
    /\ calls' = IF path > calls.fresh THEN [calls EXCEPT !.fresh = path]
                ELSE [calls EXCEPT !.readds = @ + 1]
    /\ lastCall' = Call("add_recent_file", path, path, 0, None)
    /\ UNCHANGED formulas
    /\ UNCHANGED versionState

\* get_recent_files: get_files; nothing is changed or saved.
get_recent_files(existing) ==
    /\ lastCall' = Call("get_recent_files", 0, lastCall.added, 0,
                        Some(get_files(recent_files.data, existing)))
    /\ UNCHANGED <<recent_files, formulas, calls>>
    /\ UNCHANGED versionState

\* clear_recent_files: clear, then save.
clear_recent_files ==
    /\ recent_files' = [data |-> clear(recent_files.data),
                        file |-> Some(clear(recent_files.data))]
    /\ lastCall' = Call("clear_recent_files", 0, lastCall.added, 0, None)
    /\ UNCHANGED <<formulas, calls>>
    /\ UNCHANGED versionState

\* create_formula: add, then save; the formula passed is returned.
create_formula(formula) ==
    /\ Len(formulas.data) < Seeds + MaxAdds
    /\ formulas' = [data |-> add(formulas.data, formula),
                    file |-> Some(add(formulas.data, formula))]
    /\ lastCall' = Call("create_formula", 0, lastCall.added, formula.id,
                        Some(formula))
    /\ UNCHANGED <<recent_files, calls>>
    /\ UNCHANGED versionState

\* update_formula: update, then save.
update_formula(id, updates, now) ==
    LET r == update(formulas.data, id, updates, now)
    IN  /\ formulas' = [data |-> r.data, file |-> Some(r.data)]
        /\ lastCall' = Call("update_formula", 0, lastCall.added, id, r.ret)
        /\ UNCHANGED <<recent_files, calls>>
        /\ UNCHANGED versionState

\* delete_formula: remove, then save.
delete_formula(id) ==
    LET r == remove(formulas.data, id)
    IN  /\ formulas' = [data |-> r.data, file |-> Some(r.data)]
        /\ lastCall' = Call("delete_formula", 0, lastCall.added, id, r.ret)
        /\ UNCHANGED <<recent_files, calls>>
        /\ UNCHANGED versionState

\* toggle_formula_favorite: toggle_favorite, then save.
toggle_formula_favorite(id, now) ==
    LET r == toggle_favorite(formulas.data, id, now)
    IN  /\ formulas' = [data |-> r.data, file |-> Some(r.data)]
        /\ lastCall' = Call("toggle_formula_favorite", 0, lastCall.added, id,
                            r.ret)
        /\ UNCHANGED <<recent_files, calls>>
        /\ UNCHANGED versionState

\* increment_formula_usage: increment_usage, then save.  A run uses a
\* formula at most MaxUsage times.
increment_formula_usage(id, now) ==
    LET r == increment_usage(formulas.data, id, now)
    IN  /\ \A i \in 1..Len(formulas.data) :
              formulas.data[i].usage_count < MaxUsage
        /\ formulas' = [data |-> r.data, file |-> Some(r.data)]
        /\ lastCall' = Call("increment_formula_usage", 0, lastCall.added, id,
                            r.ret)
        /\ UNCHANGED <<recent_files, calls>>
        /\ UNCHANGED versionState

\* ----------------------------------------------------------- specifications

\* One command, its arguments drawn from the given sets and its failing
\* file-system call from `fs`.
Commands(paths, contents, comments, times, fs) ==
    \/ \E p \in paths, c \in contents, m \in comments, t \in times, f \in fs :
          create_version(p, c, m, t, f)
    \/ \E p \in paths, f \in fs : list_versions(p, f)
    \/ \E p \in paths, id \in VersionIds : restore_version(id, p)
    \/ \E p \in paths, id \in VersionIds, f \in fs : delete_version(id, p, f)

\* A fresh installation, every file-system call succeeding: three documents
\* of which two share a directory, three contents of which two share a
\* fingerprint.
Next == Commands(Paths, Contents, {NoComment}, {0}, {NoFault})

Spec == Init /\ [][Next]_vars

\* A fresh installation with up to MaxFaults file-system calls failing, on
\* one document.
NextFaults ==
    Commands({"/a.lml"}, Contents, {NoComment}, {0}, Faults \cup {NoFault})

SpecFaults == Init /\ [][NextFaults]_vars

\* A document with a long history, every file-system call succeeding: the
\* three documents and two contents.
NextAged == Commands(Paths, {<<"a">>, <<"b">>}, {NoComment}, {0}, {NoFault})

SpecAged == InitAged /\ [][NextAged]_vars

\* A document with a long history and up to MaxFaults file-system calls
\* failing, two contents.
NextAgedFaults ==
    Commands({"/a.lml"}, {<<"a">>, <<"b">>}, {NoComment}, {0},
             Faults \cup {NoFault})

SpecAgedFaults == InitAged /\ [][NextAgedFaults]_vars

\* A document with a long history where the removal of an evicted blob and
\* the opening of the manifest for writing can fail.
NextEvict ==
    Commands({"/a.lml"}, {<<"a">>, <<"b">>}, {NoComment}, {0},
             {NoFault, "evict_remove", "manifest_open"})

SpecEvict == InitAged /\ [][NextEvict]_vars

\* A fresh installation, one document, where a read or a write of the
\* manifest can fail and create_version can panic with the mutex held.
NextRead ==
    Commands({"/a.lml"}, {<<"a">>, <<"b">>}, {NoComment}, {0},
             {NoFault, "manifest_write"} \cup ReadFaults \cup Panics)

SpecRead == Init /\ [][NextRead]_vars

\* A fresh installation, one document and two contents, every file-system
\* call succeeding; create_version is called with or without a comment and
\* reads any time from the system clock.
NextMeta ==
    Commands({"/a.lml"}, {<<"a">>, <<"b">>}, Comments, Times, {NoFault})

SpecMeta == Init /\ [][NextMeta]_vars

\* A fresh installation, one document, the commands invoked on two threads
\* at any time and run step by step; restore and delete are of the first
\* version stored.
NextThreads ==
    \E t \in Threads :
        \/ \E c \in {<<"a">>, <<"b">>} : Invoke(t, "create", "/a.lml", c, 0)
        \/ Invoke(t, "list", "/a.lml", <<>>, 0)
        \/ Invoke(t, "restore", "/a.lml", <<>>, Prefill + 1)
        \/ Invoke(t, "delete", "/a.lml", <<>>, Prefill + 1)
        \/ Lock(t)
        \/ CreateRead(t)
        \/ CreateBlob(t)
        \/ CreateWrite(t)
        \/ ListRead(t)
        \/ RestoreOpen(t)
        \/ DeleteRemove(t)
        \/ DeleteRead(t)
        \/ DeleteWrite(t)

SpecThreads == Init /\ [][NextThreads]_vars

\* The recent-files commands.
NextRecent ==
    \/ \E existing \in Existing : get_recent_files(existing)
    \/ \E path \in RecentPaths : add_recent_file(path)
    \/ clear_recent_files

SpecRecent == Init /\ [][NextRecent]_vars

\* The formula commands.  Favourites and usage are those of the seeded
\* formula with id 1; the library was seeded at time 0 and the commands run
\* at time MaxTime.
NextFormulas ==
    \/ \E formula \in NewFormulas : create_formula(formula)
    \/ \E id \in FormulaIds, updates \in FormulaUpdates :
          update_formula(id, updates, MaxTime)
    \/ \E id \in FormulaIds : delete_formula(id)
    \/ toggle_formula_favorite(1, MaxTime)
    \/ increment_formula_usage(1, MaxTime)

SpecFormulas == Init /\ [][NextFormulas]_vars

\* ------------------------------------------------------------------ claims

\* The directory of a document, by its fingerprint.
DirOf(path) == document_hash(path)

\* The command that just returned stored a new version / returned Ok.
Created(op) == op.op = "create" /\ op.ret = "created"
CreateOk(op) == op.op = "create" /\ op.ret \in {"created", "dedup"}

Min(a, b) == IF a < b THEN a ELSE b

\* C1 (retention): a create_version that stores a new version leaves at most
\* 100 entries in the document's manifest; the new list is the new entry
\* followed by the old list, cut after the 100 newest, in the same order;
\* the entries cut off are exactly those beyond index 100 and none of them
\* has a blob file afterwards, while every entry that stays has one.
C1_Retention ==
    [][Created(lastOp') =>
         LET d == DirOf(lastOp'.path)
             old == ManifestVersions(manifest[d])
             new == ManifestVersions(manifest'[d])
             all == <<lastOp'.entry[1]>> \o old
         IN  /\ Len(new) <= 100
             /\ new = SubSeq(all, 1, Min(Len(all), 100))
             /\ \A i \in 101..Len(all) : all[i].id \notin DOMAIN blobs'[d]
             /\ \A i \in 1..Len(new) : new[i].id \in DOMAIN blobs'[d]
      ]_vars

\* The 101st create of a document (99 earlier ones, then two) has returned:
\* 100 entries are listed, from the 101st version down to the second, and
\* the first version's blob is gone.
C1_Witness ==
    /\ Created(lastOp)
    /\ lastOp.entry[1].id = 101
    /\ Len(read_manifest(DirOf(lastOp.path))) = 100
    /\ read_manifest(DirOf(lastOp.path))[1].id = 101
    /\ read_manifest(DirOf(lastOp.path))[100].id = 2
    /\ ~BlobExists(DirOf(lastOp.path), 1)

\* C2 (idempotence): a create_version that follows a successful
\* create_version of the same document with the same content returns the
\* entry with the same id, through the dedup return, and changes neither
\* the blob files nor the manifest; the blob of that id exists.
C2_Idempotence ==
    [][(/\ CreateOk(lastOp)
        /\ lastOp'.op = "create"
        /\ lastOp'.path = lastOp.path
        /\ lastOp'.content = lastOp.content) =>
         /\ lastOp'.ret = "dedup"
         /\ lastOp'.entry[1].id = lastOp.entry[1].id
         /\ blobs' = blobs
         /\ manifest' = manifest
         /\ lastOp.entry[1].id \in DOMAIN blobs'[DirOf(lastOp.path)]
      ]_vars

\* A create returned, through the dedup return, the version stored last,
\* whose blob holds the very content supplied, and that directory holds one
\* blob.
C2_Witness ==
    /\ lastOp.op = "create"
    /\ lastOp.ret = "dedup"
    /\ lastOp.entry[1].id = nextId - 1
    /\ RestoreResult(DirOf(lastOp.path), nextId - 1).out = lastOp.content
    /\ Cardinality(DOMAIN blobs[DirOf(lastOp.path)]) = 1

\* C3 (ordering): a create_version that stores a version puts it at index 0
\* and keeps the existing entries in their order behind it; in every state
\* each manifest lists its versions newest-created first (ids are issued in
\* creation order), and list_versions returns the manifest as it is.
C3_Ordering ==
    /\ [](/\ \A d \in Dirs : \A i, j \in 1..Len(read_manifest(d)) :
               i < j => read_manifest(d)[i].id > read_manifest(d)[j].id
          /\ lastOp.op = "list" =>
               lastOp.listing = read_manifest(DirOf(lastOp.path)))
    /\ [][Created(lastOp') =>
            LET d == DirOf(lastOp'.path)
                old == ManifestVersions(manifest[d])
                new == ManifestVersions(manifest'[d])
            IN  /\ new[1] = lastOp'.entry[1]
                /\ \A i \in 2..Len(new) : new[i] = old[i - 1]
         ]_vars

\* list_versions returned three entries of a document that started empty:
\* the third, the second and the first version created, in this order.
C3_Witness ==
    /\ lastOp.op = "list"
    /\ Len(lastOp.listing) = 3
    /\ lastOp.listing[1].id = Prefill + 3
    /\ lastOp.listing[2].id = Prefill + 2
    /\ lastOp.listing[3].id = Prefill + 1

\* C4 as stated (round trip): whenever create_version returns an entry e,
\* restore_version(e.id) on the same document returns exactly the content
\* that was passed to create_version.
C4_RoundTrip_AsStated ==
    CreateOk(lastOp) =>
        RestoreResult(DirOf(lastOp.path), lastOp.entry[1].id) =
            [ret |-> "ok", out |-> lastOp.content]

\* C4 (round trip, amended): when create_version stored a new version and
\* returned its entry e, restore_version(e.id) returns exactly the content;
\* when it returned the head entry through the dedup return, restore of that
\* id succeeds with the head's stored content, which has the fingerprint of
\* the content supplied.  A restore_version of the returned id that follows
\* the create returns accordingly.
C4_RoundTrip ==
    /\ [](/\ Created(lastOp) =>
               RestoreResult(DirOf(lastOp.path), lastOp.entry[1].id) =
                   [ret |-> "ok", out |-> lastOp.content]
          /\ (lastOp.op = "create" /\ lastOp.ret = "dedup") =>
               LET r == RestoreResult(DirOf(lastOp.path), lastOp.entry[1].id)
               IN  /\ r.ret = "ok"
                   /\ content_hash(r.out) = content_hash(lastOp.content))
    /\ [][(/\ CreateOk(lastOp)
           /\ lastOp'.op = "restore"
           /\ lastOp'.path = lastOp.path
           /\ lastOp'.id = lastOp.entry[1].id) =>
            /\ lastOp'.ret = "ok"
            /\ Created(lastOp) => lastOp'.out = lastOp.content
         ]_vars

\* restore_version returned the three-character content of the version
\* stored last.
C4_Witness ==
    /\ lastOp.op = "restore"
    /\ lastOp.ret = "ok"
    /\ lastOp.id = nextId - 1
    /\ lastOp.out = <<"a", " ", "b">>
    /\ read_manifest(DirOf(lastOp.path))[1].id = lastOp.id

\* C5 (dedup boundary): create_version compares the fingerprint of the
\* content with the manifest's head entry only.  If the head has that
\* fingerprint the head entry is returned; otherwise, also when an older
\* entry has the fingerprint, a new entry with an id no listed entry has
\* becomes the head, with the content's fingerprint, and the list grows by
\* one (up to the cap).
C5_DedupBoundary ==
    [][lastOp'.op = "create" =>
         LET d == DirOf(lastOp'.path)
             old == ManifestVersions(manifest[d])
             new == ManifestVersions(manifest'[d])
             h == content_hash(lastOp'.content)
         IN  IF old # <<>> /\ old[1].content_hash = h
             THEN /\ lastOp'.ret = "dedup"
                  /\ lastOp'.entry = <<old[1]>>
                  /\ new = old
             ELSE /\ lastOp'.ret = "created"
                  /\ lastOp'.entry[1].id \notin Ids(old)
                  /\ new[1] = lastOp'.entry[1]
                  /\ new[1].content_hash = h
                  /\ Len(new) = Min(Len(old) + 1, 100)
      ]_vars

\* A, then B, then A again: the create returned a third entry; the manifest
\* has length 3, its head has the hash and the content of its last entry and
\* another id, and the entry between them has another hash.
C5_Witness ==
    LET d == DirOf(lastOp.path)
        m == read_manifest(d)
    IN  /\ Created(lastOp)
        /\ Len(m) = 3
        /\ m[1] = lastOp.entry[1]
        /\ m[1].content_hash = m[3].content_hash
        /\ m[2].content_hash # m[1].content_hash
        /\ m[1].id # m[3].id
        /\ blobs[d][m[1].id] = blobs[d][m[3].id]

\* C6 (deletion): once delete_version(id, document_path) has returned
\* success, id is not in the document's manifest and restore_version of it
\* finds no blob; the delete left the other entries listed, in their order;
\* and a restore_version(id, document_path) that follows it returns not
\* found.
C6_Deletion ==
    /\ []((lastOp.op = "delete" /\ lastOp.ret = "ok") =>
            /\ lastOp.id \notin Ids(read_manifest(DirOf(lastOp.path)))
            /\ RestoreResult(DirOf(lastOp.path), lastOp.id).ret = "not_found")
    /\ [][(lastOp'.op = "delete" /\ lastOp'.ret = "ok") =>
            LET d == DirOf(lastOp'.path)
                others(v) == v.id # lastOp'.id
            IN  ManifestVersions(manifest'[d]) =
                    SelectSeq(ManifestVersions(manifest[d]), others)
         ]_vars
    /\ [][(/\ lastOp.op = "delete" /\ lastOp.ret = "ok"
           /\ lastOp'.op = "restore"
           /\ lastOp'.path = lastOp.path
           /\ lastOp'.id = lastOp.id) => lastOp'.ret = "not_found"
         ]_vars

\* Three versions were stored in the only directory there is, and
\* delete_version returned success for the second: the third and the first
\* are listed, in this order, and two blobs are left.
C6_Witness ==
    LET d == DirOf(lastOp.path)
    IN  /\ lastOp.op = "delete"
        /\ lastOp.ret = "ok"
        /\ lastOp.id = Prefill + 2
        /\ dirs = {d}
        /\ nextId = Prefill + 4
        /\ Len(read_manifest(d)) = 2
        /\ read_manifest(d)[1].id = Prefill + 3
        /\ read_manifest(d)[2].id = Prefill + 1
        /\ DOMAIN blobs[d] = {Prefill + 1, Prefill + 3}

\* C7 as stated (directory isolation): a create_version or delete_version
\* on one document_path changes neither the manifest nor the blobs of any
\* other document_path.
C7_Isolation_AsStated ==
    [][lastOp'.op \in {"create", "delete"} =>
         \A q \in Paths \ {lastOp'.path} :
            /\ manifest'[DirOf(q)] = manifest[DirOf(q)]
            /\ blobs'[DirOf(q)] = blobs[DirOf(q)]
      ]_vars

\* C7 (directory isolation, amended): a create_version or delete_version,
\* eviction included, changes the manifest and the blobs of no directory
\* other than the one named by the fingerprint of its document_path; no
\* version id is listed or has a blob in two directories, and every listed
\* entry is in the directory of its own document_path.  Two different paths
\* are isolated when their fingerprints differ.
C7_Isolation ==
    /\ [][lastOp'.op \in {"create", "delete", "list", "restore"} =>
            \A d \in Dirs \ {document_hash(lastOp'.path)} :
               /\ manifest'[d] = manifest[d]
               /\ blobs'[d] = blobs[d]
         ]_vars
    /\ [](\A d \in Dirs :
            /\ \A i \in 1..Len(read_manifest(d)) :
                  document_hash(read_manifest(d)[i].document_path) = d
            /\ \A e \in Dirs \ {d} :
                  /\ Ids(read_manifest(d)) \cap Ids(read_manifest(e)) = {}
                  /\ DOMAIN blobs[d] \cap DOMAIN blobs[e] = {}
                  /\ Ids(read_manifest(d)) \cap DOMAIN blobs[e] = {})

\* A create on a document of directory d1 evicted that directory's oldest
\* version while directory d2 holds one version, its blob in place.
C7_Witness ==
    /\ Created(lastOp)
    /\ document_hash(lastOp.path) = "d1"
    /\ Len(read_manifest("d1")) = 100
    /\ ~BlobExists("d1", 1)
    /\ Len(read_manifest("d2")) = 1
    /\ DOMAIN blobs["d2"] = Ids(read_manifest("d2"))

\* Every listed entry has a blob file and every blob file a listed entry.
NoOrphans == \A d \in Dirs : Ids(read_manifest(d)) = DOMAIN blobs[d]

\* The failing calls that leave the files as a command found them or as a
\* successful run leaves them: create_dir_all and File::create (nothing is
\* written yet), fs::metadata (the size is recorded as 0), and remove_file
\* in delete_version (the manifest is not touched).
Harmless == {"create_dir", "create_file", "metadata", "remove_file"}

C11_ListNeverFails ==
    [][LET d == DirOf(lastOp'.path)
           readFailed == faults' # faults /\ faults'[Len(faults')] = "manifest_read"
           otherFault == faults' # faults /\ ~readFailed
           unreadable == manifest[d].state # "ok" \/ readFailed
       IN  /\ lastOp'.op = "list" =>
                /\ lastOp'.ret = "listed"
                /\ lastOp'.listing =
                      IF app_data_dir.poisoned \/ unreadable THEN <<>>
                      ELSE manifest[d].versions
                /\ <<dirs', manifest', blobs'>> = <<dirs, manifest, blobs>>
           /\ (/\ lastOp'.op = "create"
               /\ unreadable /\ ~otherFault /\ ~app_data_dir.poisoned) =>
                /\ lastOp'.ret = "created"
                /\ manifest'[d] = ManifestOk(lastOp'.entry)
           /\ (/\ lastOp'.op = "delete"
               /\ unreadable /\ ~otherFault /\ ~app_data_dir.poisoned
               /\ d \in dirs) =>
                /\ lastOp'.ret = "ok"
                /\ manifest'[d] = ManifestOk(<<>>)
      ]_vars

\* list_versions returned the empty list on the poisoned mutex although the
\* manifest on disk lists a version.
C11_Witness ==
    /\ lastOp.op = "list"
    /\ lastOp.listing = <<>>
    /\ app_data_dir.poisoned
    /\ manifest[DirOf(lastOp.path)].state = "ok"
    /\ manifest[DirOf(lastOp.path)].versions # <<>>

\* C12 (serialization): each command holds the app_data_dir mutex from its
\* lock() to its return, so at most one thread is between the two and it
\* is the holder; a create_version that stores a version writes the
\* manifest that is on disk at that moment with its entry in front (cut at
\* the cap), and a delete_version writes the manifest on disk at that moment
\* without its id, so no write is based on a read another command has
\* overwritten since: two concurrent creates both end up listed, a
\* concurrent create and delete keep each other's change; whenever no
\* command is running, the listed entries and the blob files are the same
\* ids.
C12_Serialization ==
    /\ [](\A t, u \in Threads :
            /\ Holding(t) => app_data_dir.holder = t
            /\ (Holding(t) /\ Holding(u)) => t = u)
    /\ []((\A t \in Threads : ~Holding(t)) => NoOrphans)
    /\ [][\A t \in Threads :
            LET d == DirOf(threads[t].path)
                old == ManifestVersions(manifest[d])
                others(v) == v.id # threads[t].id
            IN  /\ (threads[t].pc = "c_write" /\ threads'[t].pc = "idle") =>
                     LET all == threads[t].entry \o old
                     IN  manifest'[d] =
                            ManifestOk(SubSeq(all, 1, Min(Len(all), 100)))
                /\ (threads[t].pc = "d_write" /\ threads'[t].pc = "idle"
                    /\ lastOp'.ret = "ok") =>
                     manifest'[d] = ManifestOk(SelectSeq(old, others))
         ]_vars

\* Two creates with different contents ran on the two threads, the second
\* invoked while the first held the mutex; both have returned and both
\* entries are listed.
C12_Witness ==
    /\ \A t \in Threads : threads[t].pc = "idle" /\ threads[t].op = "create"
    /\ threads[1].content # threads[2].content
    /\ \E t \in Threads : threads[t].overlap
    /\ nextId = Prefill + 3
    /\ Ids(read_manifest("d1")) = {Prefill + 1, Prefill + 2}

\* The blob files of directory d that the manifest read from d does not list.
Orphans(d) == DOMAIN blobs[d] \ Ids(read_manifest(d))

\* C13 as stated: when the manifest write at the end of create_version
\* fails, the new blob is on disk, the manifest file keeps its previous
\* content, and no later command removes a blob the manifest does not list.
C13_ManifestWriteFails_AsStated ==
    [][/\ (lastOp'.op = "create" /\ lastOp'.ret = "err_manifest") =>
            /\ nextId \in DOMAIN blobs'[DirOf(lastOp'.path)]
            /\ manifest' = manifest
       /\ \A d \in Dirs : \A id \in Orphans(d) : id \in DOMAIN blobs'[d]
      ]_vars

\* C13 (amended): when the manifest write at the end of create_version
\* fails, create_version returns an error although the new blob is
\* completely written and unlisted; the manifest file keeps its previous
\* content when it could not be opened for writing, and is left truncated,
\* read as the empty history, when the write failed after the open.  A blob
\* the manifest does not list is never shown by list_versions, never
\* becomes listed, and is removed by no later command except a
\* delete_version called with that blob's own id.
C13_ManifestWriteFails ==
    [][/\ (lastOp'.op = "create" /\ lastOp'.ret = "err_manifest") =>
            LET d == DirOf(lastOp'.path)
            IN  /\ nextId \in DOMAIN blobs'[d]
                /\ blobs'[d][nextId] = [complete |-> TRUE,
                                        data |-> lastOp'.content]
                /\ nextId \notin Ids(ManifestVersions(manifest'[d]))
                /\ manifest'[d] \in {manifest[d], ManifestCorrupt}
                /\ faults'[Len(faults')] = "manifest_open" =>
                      manifest' = manifest
       /\ \A d \in Dirs : \A id \in Orphans(d) :
            \/ /\ lastOp'.op = "delete"
               /\ lastOp'.id = id
               /\ DirOf(lastOp'.path) = d
               /\ id \notin DOMAIN blobs'[d]
            \/ /\ id \in Orphans(d)'
               /\ blobs'[d][id] = blobs[d][id]
               /\ lastOp'.op = "list" => id \notin Ids(lastOp'.listing)
      ]_vars

\* After a create_version whose manifest write failed and a second one that
\* succeeded, list_versions shows the second version alone while the blob of
\* the first, complete, is still on disk.
C13_Witness ==
    LET d == DirOf(lastOp.path)
    IN  /\ lastOp.op = "list"
        /\ faults \in {<<"manifest_open">>, <<"manifest_write">>}
        /\ Ids(lastOp.listing) = {Prefill + 2}
        /\ Orphans(d) = {Prefill + 1}
        /\ blobs[d][Prefill + 1].complete

\* C14 (dedup hit is a no-op): whenever the head of the manifest has the
\* fingerprint of the content supplied, create_version returns that head
\* entry as it is stored, with its id, its timestamp and its comment
\* whatever comment and clock reading this call has, and leaves the
\* directories, the blob files, the manifest and the id source as they
\* were.
C14_DedupNoOp ==
    [][LET d == DirOf(lastOp'.path)
           old == ManifestVersions(manifest[d])
       IN  (/\ lastOp'.op = "create"
            /\ old # <<>>
            /\ old[1].content_hash = content_hash(lastOp'.content)) =>
              /\ lastOp'.ret = "dedup"
              /\ lastOp'.entry = <<old[1]>>
              /\ <<dirs', blobs', manifest', nextId'>> =
                    <<dirs, blobs, manifest, nextId>>
      ]_vars

\* A create_version with a comment, at clock reading 1, returned the head
\* entry, which has no comment and the timestamp 0.
C14_Witness ==
    /\ lastOp.op = "create"
    /\ lastOp.ret = "dedup"
    /\ lastOp.comment = <<"c">>
    /\ lastOp.now = 1
    /\ lastOp.entry[1].comment = NoComment
    /\ lastOp.entry[1].timestamp = 0
    /\ read_manifest(DirOf(lastOp.path))[1] = lastOp.entry[1]

C16_EvictionBestEffort ==
    [][LET d == DirOf(lastOp'.path)
           old == ManifestVersions(manifest[d])
           new == ManifestVersions(manifest'[d])
       IN  (/\ lastOp'.op = "create"
            /\ faults' # faults
            /\ faults'[Len(faults')] = "evict_remove") =>
              /\ Len(old) = 100
              /\ lastOp'.ret = "created"
              /\ manifest'[d].state = "ok"
              /\ Len(new) = 100
              /\ new[1] = lastOp'.entry[1]
              /\ \A i \in 2..100 : new[i] = old[i - 1]
              /\ old[100].id \notin Ids(new)
              /\ old[100].id \in DOMAIN blobs'[d] <=>
                    old[100].id \in DOMAIN blobs[d]
      ]_vars

\* The 100th and the 101st version of a document were stored, the removal
\* of the first version's blob failed: 100 versions are listed, the first
\* is not, and its blob file is still there.
C16_Witness ==
    /\ Created(lastOp)
    /\ faults = <<"evict_remove">>
    /\ Len(read_manifest("d1")) = 100
    /\ read_manifest("d1")[1] = lastOp.entry[1]
    /\ 1 \notin Ids(read_manifest("d1"))
    /\ BlobExists("d1", 1)

\* C17 (removal is transaction-like): whenever delete_version has returned
\* an error, the manifest entry of version_id and its blob file are both
\* still there or both gone: the entry is never left listed with its blob
\* file removed.
C17_Transactional ==
    (lastOp.op = "delete" /\ lastOp.ret # "ok") =>
        LET d == DirOf(lastOp.path)
        IN  lastOp.id \in Ids(read_manifest(d)) <=> BlobExists(d, lastOp.id)

\* C18 (blobs are keyed by id): in every state the entries of a manifest
\* have pairwise different ids (as many ids as entries) and every entry,
\* so each of two entries with the same content fingerprint, has a blob
\* file of its own name holding a content of its fingerprint; a
\* delete_version or an eviction leaves the blob file of every entry that
\* stays listed as it was, so that the entry stays restorable, also when
\* the entry removed has the same fingerprint.
C18_KeyedById ==
    /\ [](\A d \in Dirs :
            /\ Cardinality(Ids(manifest[d].versions)) =
                  Len(manifest[d].versions)
            /\ \A i \in 1..Len(manifest[d].versions) :
                  LET e == manifest[d].versions[i]
                  IN  /\ e.id \in DOMAIN blobs[d]
                      /\ blobs[d][e.id].complete
                      /\ content_hash(blobs[d][e.id].data) = e.content_hash)
    /\ [][\A d \in Dirs :
            blobs'[d] # blobs[d] =>
               \A id \in Ids(ManifestVersions(manifest[d])) \cap
                         Ids(ManifestVersions(manifest'[d])) :
                  /\ id \in DOMAIN blobs[d]
                  /\ id \in DOMAIN blobs'[d]
                  /\ blobs'[d][id] = blobs[d][id]
         ]_vars

\* The oldest version of the long history was deleted; the version stored
\* right after it, which has the same content and fingerprint, is listed and
\* restore_version returns its content.
C18_Witness ==
    /\ lastOp.op = "delete"
    /\ lastOp.ret = "ok"
    /\ lastOp.id = 1
    /\ ~BlobExists("d1", 1)
    /\ 3 \in Ids(read_manifest("d1"))
    /\ RestoreResult("d1", 3) = [ret |-> "ok", out |-> PrefillContent(1)]

\* The timestamps of a list of entries never increase from the head on.
Monotone(versions) ==
    \A i \in 1..(Len(versions) - 1) :
        versions[i].timestamp >= versions[i + 1].timestamp

\* C19 as stated: in every state, the timestamps of each manifest never
\* increase from the newest entry to the oldest.
C19_Timestamps_AsStated == \A d \in Dirs : Monotone(read_manifest(d))

\* C19 (amended): a create_version that stores a version stamps its entry
\* with the reading of the system clock at that call and puts it at the
\* head; if the manifest's timestamps never increased from the head on and
\* the reading is not before the head's timestamp, this still holds
\* afterwards; a delete_version keeps it.  The order of the entries is the
\* order of creation whatever the clock reads.
C19_Timestamps ==
    [][LET d == DirOf(lastOp'.path)
           old == ManifestVersions(manifest[d])
           new == ManifestVersions(manifest'[d])
       IN  /\ Created(lastOp') =>
                /\ lastOp'.entry[1].timestamp = lastOp'.now
                /\ new[1] = lastOp'.entry[1]
                /\ \A i \in 2..Len(new) : new[i].id < new[1].id
                /\ (/\ Monotone(old)
                    /\ old # <<>> => lastOp'.now >= old[1].timestamp) =>
                      Monotone(new)
           /\ (lastOp'.op = "delete" /\ Monotone(old)) => Monotone(new)
      ]_vars

\* Two versions are listed, the newer one stored at clock reading 1 and the
\* older one at 0.
C19_Witness ==
    LET m == read_manifest(DirOf(lastOp.path))
    IN  /\ Created(lastOp)
        /\ lastOp.now = 1
        /\ Len(m) = 2
        /\ m[1].timestamp = 1
        /\ m[2].timestamp = 0

\* C20 (a fingerprint collision is taken for the same content): when the
\* content supplied differs from the content stored for the head version
\* and has the same fingerprint, create_version returns the head entry
\* without an error, stores nothing and leaves manifest, blob files and
\* directories as they were; the blob of the returned id holds the head's
\* content, not the content supplied, and a restore_version of that id
\* that follows returns it.
C20_Collision ==
    /\ [][LET d == DirOf(lastOp'.path)
              old == ManifestVersions(manifest[d])
          IN  (/\ lastOp'.op = "create"
               /\ old # <<>>
               /\ old[1].content_hash = content_hash(lastOp'.content)
               /\ old[1].id \in DOMAIN blobs[d]
               /\ blobs[d][old[1].id].data # lastOp'.content) =>
                 /\ lastOp'.ret = "dedup"
                 /\ lastOp'.entry = <<old[1]>>
                 /\ <<dirs', manifest', blobs', nextId'>> =
                       <<dirs, manifest, blobs, nextId>>
                 /\ blobs'[d][old[1].id].complete
                 /\ blobs'[d][old[1].id].data # lastOp'.content
         ]_vars
    /\ [][(/\ lastOp.op = "create" /\ lastOp.ret = "dedup"
           /\ lastOp'.op = "restore"
           /\ lastOp'.path = lastOp.path
           /\ lastOp'.id = lastOp.entry[1].id) =>
             /\ lastOp'.ret = "ok"
             /\ lastOp'.out = blobs[DirOf(lastOp.path)][lastOp'.id].data
             /\ content_hash(lastOp'.out) = content_hash(lastOp.content)
         ]_vars

\* create_version with the three-character content returned the head entry,
\* whose blob holds the one-character content of the same fingerprint, and
\* nothing else is stored.
C20_Witness ==
    LET d == DirOf(lastOp.path)
    IN  /\ lastOp.op = "create"
        /\ lastOp.ret = "dedup"
        /\ lastOp.content = <<"a", " ", "b">>
        /\ RestoreResult(d, lastOp.entry[1].id) = [ret |-> "ok", out |-> <<"a">>]
        /\ DOMAIN blobs[d] = {lastOp.entry[1].id}

\* The paths of a list, and the list without one path.
PathsOf(files) == {files[i] : i \in 1..Len(files)}
Without(files, path) == SelectSeq(files, LAMBDA f : f # path)
NoDuplicates(files) == Cardinality(PathsOf(files)) = Len(files)

\* C21 as stated (recent-files list): after any sequence of add_file and
\* clear calls from the empty list, the stored list has no duplicate path,
\* at most 10 entries, and, once a path was added, the most recently added
\* path at index 0.  Not so after a clear: the list is empty then.
C21_RecentFiles_AsStated ==
    /\ NoDuplicates(recent_files.data)
    /\ Len(recent_files.data) <= 10
    /\ lastCall.added # 0 =>
          /\ recent_files.data # <<>>
          /\ recent_files.data[1] = lastCall.added

\* C21 (recent-files list): in every state reached from the empty list by
\* add_file and clear calls, the list in memory, which is also the list
\* saved, has no duplicate path and at most 10 entries; it is empty right
\* after a clear and until the next add_file; whenever it is not empty its
\* index 0 holds the most recently added path.  An add_file of a path
\* already in the list moves it to the front, the length and the order of
\* the other paths unchanged; an add_file of a path not in the list puts it
\* in front of the old list, of which the first 9 paths at most are kept.
C21_RecentFiles ==
    /\ [](/\ NoDuplicates(recent_files.data)
          /\ Len(recent_files.data) <= 10
          /\ recent_files.file # None =>
                recent_files.file = Some(recent_files.data)
          /\ lastCall.op = "add_recent_file" => recent_files.data # <<>>
          /\ lastCall.op = "clear_recent_files" => recent_files.data = <<>>
          /\ recent_files.data # <<>> =>
                recent_files.data[1] = lastCall.added)
    /\ [][calls' # calls =>
            LET path == lastCall'.path
                old == recent_files.data
                new == recent_files'.data
            IN  /\ lastCall'.added = path
                /\ new[1] = path
                /\ path \in PathsOf(old) =>
                      /\ Len(new) = Len(old)
                      /\ Without(new, path) = Without(old, path)
                /\ path \notin PathsOf(old) =>
                      /\ Len(new) = IF Len(old) < 10 THEN Len(old) + 1 ELSE 10
                      /\ Tail(new) = SubSeq(old, 1, Len(new) - 1)
         ]_vars

\* The list is full, its oldest path 1 was trimmed away by the 11th distinct
\* path, and a path from inside the full list was added again: it is at the
\* front and the list still has 10 paths.
C21_Witness ==
    /\ lastCall.op = "add_recent_file"
    /\ calls.fresh = 11
    /\ calls.readds = 1
    /\ lastCall.path = 5
    /\ Len(recent_files.data) = 10
    /\ recent_files.data[1] = 5
    /\ recent_files.data[2] = 11
    /\ 1 \notin PathsOf(recent_files.data)

\* The system formulas of a library, in its order, each with its id and the
\* fields update assigns from a FormulaUpdate.
Protected(formula) ==
    [id |-> formula.id, name |-> formula.name,
     description |-> formula.description,
     latex_content |-> formula.latex_content,
     lml_content |-> formula.lml_content, category |-> formula.category,
     subcategory |-> formula.subcategory, tags |-> formula.tags]
SystemFormulas(data) ==
    LET sys == SelectSeq(data, LAMBDA f : f.is_system)
    IN  [i \in 1..Len(sys) |-> Protected(sys[i])]

\* The library has a formula of the caller's (is_system false) with this id.
HasUserFormula(data, id) ==
    \E i \in 1..Len(data) : data[i].id = id /\ ~data[i].is_system

\* C22 (formula library protection): no command takes a system formula out
\* of the library or changes its name, description, latex_content,
\* lml_content, category, subcategory or tags: a step leaves the system
\* formulas and these fields as they were, create_formula alone adding one
\* at the end when the formula passed has is_system = true.  update returns
\* None and changes nothing, and remove returns false and removes nothing,
\* for an id no non-system formula has, a system formula's id included.
\* remove returns true exactly when the library had a non-system formula
\* with the id, and it removes exactly the non-system formulas with the id;
\* update returns the formula it changed exactly in that case.
C22_SystemProtected ==
    [][LET old == formulas.data
           new == formulas'.data
           id == lastCall'.id
           ret == lastCall'.ret
       IN  /\ lastCall'.op # "create_formula" =>
                 SystemFormulas(new) = SystemFormulas(old)
           /\ lastCall'.op = "create_formula" =>
                 /\ new = Append(old, ret[1])
                 /\ SystemFormulas(new) =
                       IF ret[1].is_system
                       THEN Append(SystemFormulas(old), Protected(ret[1]))
                       ELSE SystemFormulas(old)
           /\ lastCall'.op = "update_formula" =>
                 /\ (ret # None) <=> HasUserFormula(old, id)
                 /\ ~HasUserFormula(old, id) => new = old
                 /\ Len(new) = Len(old)
                 /\ ret # None =>
                       /\ ret[1].id = id
                       /\ ~ret[1].is_system
                       /\ \E i \in 1..Len(new) : new[i] = ret[1]
           /\ lastCall'.op = "delete_formula" =>
                 /\ ret = HasUserFormula(old, id)
                 /\ ~HasUserFormula(old, id) => new = old
                 /\ ~HasUserFormula(new, id)
                 /\ new = SelectSeq(old,
                             LAMBDA f : ~(f.id = id /\ ~f.is_system))
      ]_vars

\* The caller stored a formula of its own under the id of the seeded system
\* formula 1, used the seeded formula once and deleted that id: remove
\* returned true, only the seeded formulas are left, and the seeded formula
\* 1 is still the first of the library, with the name and content it was
\* seeded with.
C22_Witness ==
    /\ lastCall.op = "delete_formula"
    /\ lastCall.id = 1
    /\ lastCall.ret = TRUE
    /\ Len(formulas.data) = Seeds
    /\ Protected(formulas.data[1]) = Protected(SeedFormula(1))
    /\ formulas.data[1].is_system
    /\ formulas.data[1].usage_count = 1
    /\ formulas.file = Some(formulas.data)

====
